---- MODULE Spec2Model ----
(***************************************************************************)
(* Model of the `scenario run` command action of                           *)
(* packages/cli/src/commands/scenario/index.ts: one execution of the       *)
(* action, from reading the scenario file to process.exit.                 *)
(*                                                                         *)
(* process.exit never returns (its TypeScript type is `never`, and the     *)
(* code relies on it at line 123 to narrow `provider`): a call made from   *)
(* inside the try or the catch block ends the process at once, and the     *)
(* finally block does not run.                                             *)
(*                                                                         *)
(* SpecMatrix models one execution of the `scenario matrix` action of the  *)
(* same file, and SpecMigrator the calls a client makes on the             *)
(* RuntimeMigrator of packages/plugin-sql.                                 *)
(***************************************************************************)
EXTENDS Integers, Sequences, FiniteSets, TLC

(* ------------------------------ bounds --------------------------------- *)
MaxSteps == 2
MaxEvals == 1
MaxMocks == 2
MaxAxes == 2
MaxValues == 4
MaxRuns == 2
MaxCalls == 4
MaxCharacterCalls == 2

(* ------------------------------ inputs --------------------------------- *)
\* capabilities the runtime offers, and the names a Mock may carry
KnownCaps == {"svcA"}
MockCaps == KnownCaps \cup {"nope"}

EnvTypes == {"local", "e2b", "unknown"}
Strategies == {"all_pass", "any_pass", "other"}

\* texts are sequences of characters
TextOK == <<"O", "K">>
TextFail == <<"F">>

Evaluators ==
    { [type |-> "string_contains", value |-> TextOK],
      [type |-> "regex_match", value |-> TextOK],
      [type |-> "regex_match", value |-> <<"(">>],
      [type |-> "llm_judge", value |-> <<>>] }

ExecResults ==
    { [stdout |-> TextOK, success |-> TRUE],
      [stdout |-> TextFail, success |-> FALSE] }

SeqsUpTo(S, n) == UNION { [1..k -> S] : k \in 0..n }

StepSet == { [evaluations |-> e] : e \in SeqsUpTo(Evaluators, MaxEvals) }

\* setup.mocks is either absent or a (possibly empty) list of Mocks
NoMocks == <<"absent">>
MockLists == SeqsUpTo(MockCaps, MaxMocks)

\* the run sequences: up to MaxSteps Steps declaring the same evaluations
Runs == { [k \in 1..n |-> st] : n \in 0..MaxSteps, st \in StepSet }

\* a run whose Steps declare no evaluation, and the simplest mock settings
SimpleRuns == { r \in Runs : \A k \in 1..Len(r) : r[k].evaluations = <<>> }
SimpleMocks == {NoMocks} \cup { <<"list", <<c>>>> : c \in KnownCaps }

\* the scenarios explored: every mock list with the simple runs, and every
\* run with the simple mock settings
Scenarios ==
    { sc \in [ envType : EnvTypes,
               mocks : {NoMocks} \cup { <<"list", m>> : m \in MockLists },
               run : Runs,
               strategy : Strategies ] :
        sc.run \in SimpleRuns \/ sc.mocks \in SimpleMocks }

HasMocks(sc) == sc.mocks[1] = "list"
MocksOf(sc) == sc.mocks[2]

(* ------------------------------- state --------------------------------- *)
VARIABLES
    pc,                   \* position in the action
    scenario,             \* the validated Scenario
    live,                 \* options.live
    provider,             \* "null" | "Local" | "E2B"
    runtime,              \* TRUE iff the runtime handle is non-null
    server,               \* TRUE iff the server handle is non-null
    createdServer,
    mockEngine,           \* TRUE iff mockEngine is non-null
    finalStatus,
    reporter,             \* TRUE iff reporter is non-null
    e2bService,           \* TRUE iff runtime.getService('e2b') is present
    services,             \* runtime capability table: 0 = original, i = Mock i
    results,              \* what provider.run returned
    allEvaluationResults,
    i,                    \* loop index of the evaluation loops
    exitCode,             \* -1 while the process runs
    log,                  \* the calls made so far, in order
    rawMatrixConfig,      \* what yaml.load gave for the matrix file
    options,              \* the matrix command's options
    matrixConfig,         \* validationResult.data
    totalCombinations,
    totalRuns,
    combinations,
    filteredCombinations,
    migrations,           \* the rows of migrations._migrations, by plugin
    prev,                 \* the rows before the latest migrator call
    history,              \* the migrator calls made so far, in order
    env,                  \* process.env: TRUE for a variable that is set
    characters            \* the plugin lists getElizaCharacter returned

\* the locals of the matrix action
matrixVars == << rawMatrixConfig, options, matrixConfig, totalCombinations,
                 totalRuns, combinations, filteredCombinations >>

\* the migration tables and the history of the calls on them
migratorVars == << migrations, prev, history >>

\* the environment of getElizaCharacter and what it returned
characterVars == << env, characters >>

vars == << pc, scenario, live, provider, runtime, server, createdServer,
           mockEngine, finalStatus, reporter, e2bService, services, results,
           allEvaluationResults, i, exitCode, log, matrixVars, migratorVars,
           characterVars >>

(* --------------------- matrix and migrator inputs ----------------------- *)
Digit == <<"1", "2", "3", "4", "5">>
Letter == <<"a", "b", "c", "d", "e">>

\* the literals an axis may list: 1, "a", 2, "b", ...
Literal(k) ==
    IF k % 2 = 1
    THEN [kind |-> "number", text |-> Digit[(k + 1) \div 2]]
    ELSE [kind |-> "string", text |-> Letter[k \div 2]]

\* the parameter path of the j-th axis: p1, p2, ...
Param(j) == <<"p", Digit[j]>>

\* the j-th axis with n values; the axes of one matrix name different
\* parameters and list different literals
AxisOf(j, n) ==
    [ parameter |-> Param(j),
      values |-> [k \in 1..n |-> Literal(j - 1 + k)] ]

Matrices ==
    UNION { { [j \in 1..a |-> AxisOf(j, len[j])] : len \in [1..a -> 0..MaxValues] } :
            a \in 0..MaxAxes }

MatrixConfigs == [ matrix : Matrices, runs_per_combination : 0..MaxRuns ]

NoFilter == <<"absent">>

\* --filter patterns: empty, a digit, a value after its colon, a quoted
\* string value, a value that ends the object, a separator, a parameter
\* path, and a text no combination holds
Patterns ==
    { <<>>, <<"1">>, <<":", "1">>, <<"\"", "a", "\"">>, <<"2", "}">>,
      <<",">>, <<"p", "2">>, <<"z">> }

\* an execution with any pattern or none, and a dry run with a pattern and
\* without one
MatrixOptions ==
    [ dryRun : {FALSE},
      filter : {NoFilter} \cup { <<"pattern", f>> : f \in Patterns } ]
    \cup [ dryRun : {TRUE}, filter : {NoFilter, <<"pattern", <<":", "1">>>>} ]

HasFilter(o) == o.filter[1] = "pattern"
FilterOf(o) == o.filter[2]

EmptyConfig == [matrix |-> <<>>, runs_per_combination |-> 0]

\* the matrix action has not been entered
MatrixIdle ==
    /\ rawMatrixConfig = EmptyConfig
    /\ options = [dryRun |-> FALSE, filter |-> NoFilter]
    /\ matrixConfig = EmptyConfig
    /\ totalCombinations = 0
    /\ totalRuns = 0
    /\ combinations = <<>>
    /\ filteredCombinations = <<>>

Plugins == {"plugin-sql", "other-plugin"}
ValidSchemas == {"schema", "schema2"}
Schemas == ValidSchemas \cup {"invalid"}

NoRows == [p \in Plugins |-> <<>>]

\* a database without migration rows
MigratorIdle ==
    /\ migrations = NoRows
    /\ prev = NoRows
    /\ history = <<>>

EnvVars ==
    { "ANTHROPIC_API_KEY", "OPENAI_API_KEY", "OPENROUTER_API_KEY",
      "OLLAMA_API_ENDPOINT", "GOOGLE_GENERATIVE_AI_API_KEY",
      "DISCORD_API_TOKEN", "TWITTER_API_KEY", "TWITTER_API_SECRET_KEY",
      "TWITTER_ACCESS_TOKEN", "TWITTER_ACCESS_TOKEN_SECRET",
      "TELEGRAM_BOT_TOKEN", "IGNORE_BOOTSTRAP" }

\* an environment in which none of the variables is set
ClearedEnv == [v \in EnvVars |-> FALSE]

\* getElizaCharacter has not been called
CharacterIdle ==
    /\ env = ClearedEnv
    /\ characters = <<>>

Init ==
    /\ pc = "load"
    /\ scenario \in Scenarios
    /\ live \in BOOLEAN
    /\ live => scenario.run \in SimpleRuns
    /\ provider = "null"
    /\ runtime = FALSE
    /\ server = FALSE
    /\ createdServer = FALSE
    /\ mockEngine = FALSE
    /\ finalStatus = FALSE
    /\ reporter = FALSE
    /\ e2bService = FALSE
    /\ services = [c \in KnownCaps |-> 0]
    /\ results = <<>>
    /\ allEvaluationResults = <<>>
    /\ i = 0
    /\ exitCode = -1
    /\ log = <<>>
    /\ MatrixIdle
    /\ MigratorIdle
    /\ CharacterIdle

(* ------------------------------ helpers -------------------------------- *)
\* a test of the start of s only (startsWith)
ContainsAtStart(s, t) == Len(t) <= Len(s) /\ SubSeq(s, 1, Len(t)) = t

\* String.prototype.includes: t occurs in s as a contiguous run
Contains(s, t) ==
    \E k \in 0..(Len(s) - Len(t)) : SubSeq(s, k + 1, k + Len(t)) = t

\* new RegExp(p) throws a SyntaxError on an unterminated group
ValidPattern(p) == \A k \in 1..Len(p) : p[k] # "("

\* new RegExp(p).test(s) for the literal patterns of Evaluators
RegExpTest(p, s) == Contains(s, p)

Append2(s, a, b) == Append(Append(s, a), b)

Count(ev) == Cardinality({ k \in 1..Len(log) : log[k] = ev })

\* position of the first occurrence of ev in the log, 0 if there is none
FirstPos(ev) ==
    IF \E k \in 1..Len(log) : log[k] = ev
    THEN CHOOSE k \in 1..Len(log) :
            /\ log[k] = ev
            /\ \A m \in 1..(k - 1) : log[m] # ev
    ELSE 0

(* ----------------------------- MockEngine ------------------------------ *)
\* index of the first Mock naming a capability the runtime does not offer,
\* 0 if every Mock can be installed
FirstUnknown(mocks) ==
    IF \E k \in 1..Len(mocks) : mocks[k] \notin KnownCaps
    THEN CHOOSE k \in 1..Len(mocks) :
            /\ mocks[k] \notin KnownCaps
            /\ \A m \in 1..(k - 1) : mocks[m] \in KnownCaps
    ELSE 0

\* the capability table after installing Mocks 1..n in declaration order,
\* the last Mock of a capability winning
Installed(tbl, mocks, n) ==
    [ c \in KnownCaps |->
        IF \E k \in 1..n : mocks[k] = c
        THEN CHOOSE k \in 1..n :
                /\ mocks[k] = c
                /\ \A m \in (k + 1)..n : mocks[m] # c
        ELSE tbl[c] ]

\* applyMocks throws at the first Mock it cannot install
ApplyMocksThrows(mocks) == FirstUnknown(mocks) # 0

applyMocks(tbl, mocks) ==
    IF ApplyMocksThrows(mocks)
    THEN Installed(tbl, mocks, FirstUnknown(mocks) - 1)
    ELSE Installed(tbl, mocks, Len(mocks))

\* revertMocks restores every capability to its original behaviour
revertMocks(tbl) == [ c \in KnownCaps |-> 0 ]

MockInstalled == \E c \in KnownCaps : services[c] # 0

(* ------------------------------ evaluation ----------------------------- *)
\* lines 174-192: the evaluators handled without a runtime
InlineThrows(ev) == ev.type = "regex_match" /\ ~ValidPattern(ev.value)

\* an unrecognized evaluator kind counted as a success
InlineSuccessOpen(ev, res) ==
    IF ev.type = "string_contains" THEN Contains(res.stdout, ev.value)
    ELSE IF ev.type = "regex_match" THEN RegExpTest(ev.value, res.stdout)
    ELSE TRUE

InlineSuccess(ev, res) ==
    IF ev.type = "string_contains" THEN Contains(res.stdout, ev.value)
    ELSE IF ev.type = "regex_match" THEN RegExpTest(ev.value, res.stdout)
    ELSE FALSE

\* index of the first evaluator of the step whose evaluation throws, 0 if none
FirstThrow(evs) ==
    IF \E k \in 1..Len(evs) : InlineThrows(evs[k])
    THEN CHOOSE k \in 1..Len(evs) :
            /\ InlineThrows(evs[k])
            /\ \A m \in 1..(k - 1) : ~InlineThrows(evs[m])
    ELSE 0

\* the results of a Step put in front of each other (unshift for push)
InlineResultsReversed(s, evs, res, n) ==
    [ j \in 1..n |-> [success |-> InlineSuccess(evs[n + 1 - j], res),
                      step |-> s, ev |-> n + 1 - j] ]

\* the results the inline loop pushes for evaluators 1..n of step s
InlineResults(s, evs, res, n) ==
    [ j \in 1..n |-> [success |-> InlineSuccess(evs[j], res), step |-> s, ev |-> j] ]

\* EvaluationEngine.runEvaluations: one result per evaluator, in order; a
\* kind that needs judgment may go either way, an invalid pattern is a
\* failed result
EngineOutcomes(ev, res) ==
    IF ev.type = "string_contains" THEN { Contains(res.stdout, ev.value) }
    ELSE IF ev.type = "regex_match"
         THEN { ValidPattern(ev.value) /\ RegExpTest(ev.value, res.stdout) }
         ELSE BOOLEAN

runEvaluations(s, evs, res) ==
    { [ j \in 1..Len(evs) |-> [success |-> b[j], step |-> s, ev |-> j] ] :
        b \in { f \in [1..Len(evs) -> BOOLEAN] :
                  \A j \in 1..Len(evs) : f[j] \in EngineOutcomes(evs[j], res) } }

\* 'all_pass' reduced with some instead of every
JudgmentAllAsAny(strategy, evalResults) ==
    IF strategy \in {"all_pass", "any_pass"}
    THEN \E k \in 1..Len(evalResults) : evalResults[k].success
    ELSE FALSE

\* 'any_pass' reduced with every instead of some
JudgmentAnyAsAll(strategy, evalResults) ==
    IF strategy \in {"all_pass", "any_pass"}
    THEN \A k \in 1..Len(evalResults) : evalResults[k].success
    ELSE FALSE

\* an unrecognized strategy judged like 'all_pass'
JudgmentDefaultAll(strategy, evalResults) ==
    IF strategy = "any_pass"
    THEN \E k \in 1..Len(evalResults) : evalResults[k].success
    ELSE \A k \in 1..Len(evalResults) : evalResults[k].success

\* a verdict taken from the strategy alone
JudgmentByStrategy(strategy, evalResults) ==
    strategy \in {"all_pass", "any_pass"}

\* a verdict that also requires every Step's ExecutionResult to have succeeded
JudgmentWithExecution(strategy, evalResults) ==
    /\ \A k \in 1..Len(results) : results[k].success
    /\ IF strategy = "all_pass"
       THEN \A k \in 1..Len(evalResults) : evalResults[k].success
       ELSE IF strategy = "any_pass"
            THEN \E k \in 1..Len(evalResults) : evalResults[k].success
            ELSE FALSE

\* lines 203-211
Judgment(strategy, evalResults) ==
    IF strategy = "all_pass"
    THEN \A k \in 1..Len(evalResults) : evalResults[k].success
    ELSE IF strategy = "any_pass"
         THEN \E k \in 1..Len(evalResults) : evalResults[k].success
         ELSE FALSE

\* the exit codes the wrong way round
ExitCodeOfSwapped(status) == IF status THEN 1 ELSE 0

\* line 247
ExitCodeOf(status) == IF status THEN 0 ELSE 1

\* every type but 'e2b' taken for 'local'
IsLocalTypeLoose(t) == t # "e2b"

\* line 98
IsE2BType(t) == t = "e2b"
\* line 110
IsLocalType(t) == t = "local"

\* the loop stopping one Step short
LoopDoneEarly(idx, res) == idx > Len(res) - 1

\* lines 152 and 165: the loop condition i < results.length (i counts from 1)
LoopDone(idx, res) == idx > Len(res)

(* --------------------------- process.exit ------------------------------ *)
\* process.exit(code): the process ends; nothing after the call runs
ProcessExit(code) ==
    /\ pc' = "exited"
    /\ exitCode' = code

\* lines 39-54: a missing file or a schema violation ends the process; a
\* read or YAML error is thrown to the catch handler
LoadScenario ==
    /\ pc = "load"
    /\ \E fileExists \in BOOLEAN, parses \in BOOLEAN, valid \in BOOLEAN :
          IF ~fileExists
          THEN ProcessExit(1)
          ELSE IF ~parses
               THEN /\ pc' = "catch"
                    /\ UNCHANGED exitCode
               ELSE IF ~valid
                    THEN ProcessExit(1)
                    ELSE /\ pc' = "plugins"
                         /\ UNCHANGED exitCode
    /\ UNCHANGED << scenario, live, provider, runtime, server, createdServer,
                    mockEngine, finalStatus, reporter, e2bService, services,
                    results, allEvaluationResults, i, log >>
    /\ UNCHANGED << matrixVars, migratorVars, characterVars >>

\* lines 56-78: plugins, when declared, must validate; the parser may throw
ParsePlugins ==
    /\ pc = "plugins"
    /\ \E hasPlugins \in BOOLEAN, throws \in BOOLEAN, pluginsValid \in BOOLEAN :
          IF hasPlugins /\ throws
          THEN /\ pc' = "catch"
               /\ UNCHANGED exitCode
          ELSE IF hasPlugins /\ ~pluginsValid
               THEN ProcessExit(1)
               ELSE /\ pc' = "report"
                    /\ UNCHANGED exitCode
    /\ UNCHANGED << scenario, live, provider, runtime, server, createdServer,
                    mockEngine, finalStatus, reporter, e2bService, services,
                    results, allEvaluationResults, i, log >>
    /\ UNCHANGED << matrixVars, migratorVars, characterVars >>

\* lines 80-96
ReportStart ==
    /\ pc = "report"
    /\ reporter' = TRUE
    /\ log' = Append(log, "reportStart")
    /\ pc' = "select"
    /\ UNCHANGED << scenario, live, provider, runtime, server, createdServer,
                    mockEngine, finalStatus, e2bService, services, results,
                    allEvaluationResults, i, exitCode >>
    /\ UNCHANGED << matrixVars, migratorVars, characterVars >>

\* what createScenarioServerAndAgent hands back: a server, a runtime handle
\* (which the code allows to be null), whether the server was created here,
\* and whether the runtime offers the 'e2b' service
FactoryOutcomes ==
    { [runtime |-> TRUE, e2b |-> TRUE, createdServer |-> TRUE],
      [runtime |-> TRUE, e2b |-> FALSE, createdServer |-> FALSE],
      [runtime |-> FALSE, e2b |-> FALSE, createdServer |-> TRUE] }

\* the provider built without asking the runtime for the 'e2b' service
ProviderForNoProbe(t, hasE2B) == IF IsE2BType(t) THEN "E2B" ELSE "Local"

\* lines 106-109 and 119
ProviderFor(t, hasE2B) ==
    IF IsE2BType(t)
    THEN IF hasE2B THEN "E2B" ELSE "Local"
    ELSE "Local"

\* lines 97-124: the factory either throws or returns; an unsupported
\* environment type ends the process
SelectProvider ==
    /\ pc = "select"
    /\ IF IsE2BType(scenario.envType) \/ IsLocalType(scenario.envType)
       THEN /\ UNCHANGED exitCode
            /\ \/ /\ pc' = "catch"
                  /\ log' = Append(log, "createRuntime")
                  /\ UNCHANGED << provider, runtime, server, createdServer,
                                  e2bService >>
               \/ \E created \in FactoryOutcomes :
                    /\ server' = TRUE
                    /\ runtime' = created.runtime
                    /\ createdServer' = created.createdServer
                    /\ e2bService' = created.e2b
                    /\ IF IsE2BType(scenario.envType)
                       THEN IF ~created.runtime
                            \* runtime.getService on a null handle throws
                            THEN /\ pc' = "catch"
                                 /\ log' = Append(log, "createRuntime")
                                 /\ UNCHANGED provider
                            ELSE /\ provider' = ProviderFor(scenario.envType, created.e2b)
                                 /\ log' = Append(log, "createRuntime")
                                 /\ pc' = "mocks"
                       ELSE /\ provider' = ProviderFor(scenario.envType, created.e2b)
                            \* line 120
                            /\ log' = Append2(log, "createRuntime",
                                              "info:Using local environment")
                            /\ pc' = "mocks"
       ELSE /\ ProcessExit(1)
            /\ UNCHANGED << provider, runtime, server, createdServer,
                            e2bService, log >>
    /\ UNCHANGED << scenario, live, mockEngine, finalStatus, reporter,
                    services, results, allEvaluationResults, i >>
    /\ UNCHANGED << matrixVars, migratorVars, characterVars >>

\* mocks applied in live mode as well
ShouldMockAlsoLive(rt, sc, lv) == rt /\ HasMocks(sc)

\* line 127: runtime && scenario.setup?.mocks && !options.live
ShouldMock(rt, sc, lv) == rt /\ HasMocks(sc) /\ ~lv

\* lines 126-132
ApplyMocks ==
    /\ pc = "mocks"
    /\ IF ShouldMock(runtime, scenario, live)
       THEN /\ mockEngine' = TRUE
            /\ services' = applyMocks(services, MocksOf(scenario))
            /\ log' = Append(log, "applyMocks")
            /\ pc' = IF ApplyMocksThrows(MocksOf(scenario)) THEN "catch" ELSE "setup"
       ELSE /\ pc' = "setup"
            /\ UNCHANGED << mockEngine, services, log >>
    /\ UNCHANGED << scenario, live, provider, runtime, server, createdServer,
                    finalStatus, reporter, e2bService, results,
                    allEvaluationResults, i, exitCode >>
    /\ UNCHANGED << matrixVars, migratorVars, characterVars >>

\* lines 134-135
Setup ==
    /\ pc = "setup"
    /\ log' = Append2(log, "info:Setting up environment", "setup")
    /\ \E throws \in BOOLEAN : pc' = IF throws THEN "catch" ELSE "run"
    /\ UNCHANGED << scenario, live, provider, runtime, server, createdServer,
                    mockEngine, finalStatus, reporter, e2bService, services,
                    results, allEvaluationResults, i, exitCode >>
    /\ UNCHANGED << matrixVars, migratorVars, characterVars >>

\* a provider that stops at the first Step that fails to execute
ProviderRunAborting(run) ==
    { r \in SeqsUpTo(ExecResults, Len(run)) :
        /\ \A k \in 1..(Len(r) - 1) : r[k].success
        /\ Len(r) < Len(run) => (Len(r) > 0 /\ ~r[Len(r)].success) }

\* what provider.run may return for a run block: one ExecutionResult per
\* Step, in Step order, each marked succeeded or failed
ProviderRun(run) == [1..Len(run) -> ExecResults]

\* lines 136-142: provider.run returns one ExecutionResult per Step, or throws
Run ==
    /\ pc = "run"
    /\ log' = Append(log, "run")
    /\ \/ /\ pc' = "catch"
          /\ UNCHANGED << results, i >>
       \/ /\ results' \in ProviderRun(scenario.run)
          /\ i' = 1
          /\ pc' = "evaluate"
    /\ UNCHANGED << scenario, live, provider, runtime, server, createdServer,
                    mockEngine, finalStatus, reporter, e2bService, services,
                    allEvaluationResults, exitCode >>
    /\ UNCHANGED << matrixVars, migratorVars, characterVars >>

\* every Step evaluated against the first ExecutionResult
ResultForFirst(res, idx) == res[1]

\* lines 153 and 175: const result = results[i]
ResultFor(res, idx) == res[idx]

\* a choice of the engine only for a Step with an evaluator that needs it
EvaluationModeByKind(rt, evs) ==
    IF rt /\ \E k \in 1..Len(evs) :
                evs[k].type \notin {"string_contains", "regex_match"}
    THEN "runEvaluations"
    ELSE "inlineEvaluation"

\* line 146: the branch on the runtime handle picks who evaluates
EvaluationMode(rt, evs) ==
    IF rt THEN "runEvaluations" ELSE "inlineEvaluation"

\* lines 147-198: one iteration of the evaluation loop, with the runtime
\* (EvaluationEngine) or without it (inline evaluators); a Step without
\* evaluations is passed over
EvaluateStep ==
    /\ pc = "evaluate"
    /\ ~LoopDone(i, results)
    /\ LET evs == scenario.run[i].evaluations
           res == ResultFor(results, i)
           mode == EvaluationMode(runtime, evs)
       IN /\ log' = IF Len(evs) > 0
                    THEN Append2(log, mode, "evaluate")
                    ELSE Append(log, "evaluate")
          /\ IF mode = "runEvaluations"
             THEN /\ \E rs \in runEvaluations(i, evs, res) :
                        allEvaluationResults' = allEvaluationResults \o rs
                  /\ i' = i + 1
                  /\ pc' = "evaluate"
             ELSE IF FirstThrow(evs) # 0
                  THEN /\ allEvaluationResults' = allEvaluationResults
                              \o InlineResults(i, evs, res, FirstThrow(evs) - 1)
                       /\ pc' = "catch"
                       /\ UNCHANGED i
                  ELSE /\ allEvaluationResults' = allEvaluationResults
                              \o InlineResults(i, evs, res, Len(evs))
                       /\ i' = i + 1
                       /\ pc' = "evaluate"
    /\ UNCHANGED << scenario, live, provider, runtime, server, createdServer,
                    mockEngine, finalStatus, reporter, e2bService, services,
                    results, exitCode >>
    /\ UNCHANGED << matrixVars, migratorVars, characterVars >>

\* lines 200-211
Judge ==
    /\ pc = "evaluate"
    /\ LoopDone(i, results)
    /\ log' = Append2(log, "reportEvaluationResults", "judge")
    /\ finalStatus' = Judgment(scenario.strategy, allEvaluationResults)
    /\ pc' = "finally"
    /\ UNCHANGED << scenario, live, provider, runtime, server, createdServer,
                    mockEngine, reporter, e2bService, services, results,
                    allEvaluationResults, i, exitCode >>
    /\ UNCHANGED << matrixVars, migratorVars, characterVars >>

\* lines 212-215: the handler ends the process; the finally block is not run
Catch ==
    /\ pc = "catch"
    /\ log' = Append(log, "catch")
    /\ ProcessExit(1)
    /\ UNCHANGED << scenario, live, provider, runtime, server, createdServer,
                    mockEngine, finalStatus, reporter, e2bService, services,
                    results, allEvaluationResults, i >>
    /\ UNCHANGED << matrixVars, migratorVars, characterVars >>

\* a finally block that goes to the teardown without reverting the Mocks
FinallyRevertSkipped ==
    /\ pc = "finally"
    /\ pc' = "teardown"
    /\ UNCHANGED << scenario, live, provider, runtime, server, createdServer,
                    mockEngine, finalStatus, reporter, e2bService, services,
                    results, allEvaluationResults, i, exitCode, log >>
    /\ UNCHANGED << matrixVars, migratorVars, characterVars >>

\* lines 216-221; revertMocks restores the capabilities and returns
FinallyRevert ==
    /\ pc = "finally"
    /\ IF mockEngine
       THEN /\ services' = revertMocks(services)
            /\ log' = Append(log, "revertMocks")
       ELSE UNCHANGED << services, log >>
    /\ pc' = "teardown"
    /\ UNCHANGED << scenario, live, provider, runtime, server, createdServer,
                    mockEngine, finalStatus, reporter, e2bService, results,
                    allEvaluationResults, i, exitCode >>
    /\ UNCHANGED << matrixVars, migratorVars, characterVars >>

\* lines 223-226; teardown is best-effort and does not throw
Teardown ==
    /\ pc = "teardown"
    /\ IF provider # "null"
       THEN log' = Append(log, "teardown")
       ELSE UNCHANGED log
    /\ pc' = "close"
    /\ UNCHANGED << scenario, live, provider, runtime, server, createdServer,
                    mockEngine, finalStatus, reporter, e2bService, services,
                    results, allEvaluationResults, i, exitCode >>
    /\ UNCHANGED << matrixVars, migratorVars, characterVars >>

\* a runtime shutdown whose exception reaches the catch handler
CloseRuntimeUnguarded ==
    /\ pc = "close"
    /\ IF runtime
       THEN \E stopThrows \in BOOLEAN, closeThrows \in BOOLEAN :
              /\ stopThrows => e2bService
              /\ closeThrows => ~stopThrows
              /\ log' = (IF e2bService THEN Append(log, "e2bStop") ELSE log)
                        \o (IF stopThrows THEN <<>> ELSE <<"close">>)
              /\ pc' = IF stopThrows \/ closeThrows THEN "catch" ELSE "stop"
       ELSE /\ UNCHANGED log
            /\ pc' = "stop"
    /\ UNCHANGED << scenario, live, provider, runtime, server, createdServer,
                    mockEngine, finalStatus, reporter, e2bService, services,
                    results, allEvaluationResults, i, exitCode >>
    /\ UNCHANGED << matrixVars, migratorVars, characterVars >>

\* lines 227-238: a throw of e2bService.stop() skips runtime.close(); a
\* throw of either is swallowed by the empty catch
CloseRuntime ==
    /\ pc = "close"
    /\ IF runtime
       THEN \E stopThrows \in BOOLEAN, closeThrows \in BOOLEAN :
              /\ stopThrows => e2bService
              /\ closeThrows => ~stopThrows
              /\ log' = (IF e2bService THEN Append(log, "e2bStop") ELSE log)
                        \o (IF stopThrows THEN <<>> ELSE <<"close">>)
                        \o (IF stopThrows \/ closeThrows
                            THEN <<"swallowed">> ELSE <<>>)
       ELSE UNCHANGED log
    /\ pc' = "stop"
    /\ UNCHANGED << scenario, live, provider, runtime, server, createdServer,
                    mockEngine, finalStatus, reporter, e2bService, services,
                    results, allEvaluationResults, i, exitCode >>
    /\ UNCHANGED << matrixVars, migratorVars, characterVars >>

\* lines 239-243: server.stop() only for a server this execution created; a
\* throw is swallowed
StopServer ==
    /\ pc = "stop"
    /\ IF server /\ createdServer
       THEN \E stopThrows \in BOOLEAN :
              log' = Append(log, "serverStop")
                     \o (IF stopThrows THEN <<"swallowed">> ELSE <<>>)
       ELSE UNCHANGED log
    /\ pc' = "final"
    /\ UNCHANGED << scenario, live, provider, runtime, server, createdServer,
                    mockEngine, finalStatus, reporter, e2bService, services,
                    results, allEvaluationResults, i, exitCode >>
    /\ UNCHANGED << matrixVars, migratorVars, characterVars >>

\* lines 245-247
ReportAndExit ==
    /\ pc = "final"
    /\ log' = IF reporter THEN Append(log, "reportFinalResult") ELSE log
    /\ ProcessExit(ExitCodeOf(finalStatus))
    /\ UNCHANGED << scenario, live, provider, runtime, server, createdServer,
                    mockEngine, finalStatus, reporter, e2bService, services,
                    results, allEvaluationResults, i >>
    /\ UNCHANGED << matrixVars, migratorVars, characterVars >>

Next ==
    \/ LoadScenario
    \/ ParsePlugins
    \/ ReportStart
    \/ SelectProvider
    \/ ApplyMocks
    \/ Setup
    \/ Run
    \/ EvaluateStep
    \/ Judge
    \/ Catch
    \/ FinallyRevert
    \/ Teardown
    \/ CloseRuntime
    \/ StopServer
    \/ ReportAndExit

Spec == Init /\ [][Next]_vars

(* ----------------------- evaluation scenarios --------------------------- *)
\* evaluators of every kind, with values that occur in the captured output
\* at its start, at its end, in another case, or not at all
EvalEvaluators ==
    Evaluators \cup
    { [type |-> "string_contains", value |-> <<"K">>],
      [type |-> "string_contains", value |-> <<"o", "k">>] }

\* evaluators used in the Steps that declare several of them
BasicEvaluators ==
    { [type |-> "string_contains", value |-> TextOK],
      [type |-> "regex_match", value |-> <<"(">>],
      [type |-> "llm_judge", value |-> <<>>] }

\* Steps with up to MaxEvals evaluators of any kind, and Steps with
\* MaxEvals + 1 basic ones
EvalStepSet ==
    { [evaluations |-> e] : e \in SeqsUpTo(EvalEvaluators, MaxEvals) }
    \cup { [evaluations |-> e] : e \in [1..(MaxEvals + 1) -> BasicEvaluators] }

EvalRuns == { [k \in 1..n |-> st] : n \in 0..MaxSteps, st \in EvalStepSet }

\* judgment.strategy, or no judgment at all
EvalStrategies == Strategies \cup {"absent"}

\* every run under the two known strategies, and the runs of Runs under the
\* other ones
EvalScenarios ==
    { sc \in [ envType : {"local"},
               mocks : {NoMocks},
               run : EvalRuns,
               strategy : EvalStrategies ] :
        sc.strategy \in {"all_pass", "any_pass"} \/ sc.run \in Runs }

InitEval ==
    /\ pc = "load"
    /\ scenario \in EvalScenarios
    /\ live = FALSE
    /\ provider = "null"
    /\ runtime = FALSE
    /\ server = FALSE
    /\ createdServer = FALSE
    /\ mockEngine = FALSE
    /\ finalStatus = FALSE
    /\ reporter = FALSE
    /\ e2bService = FALSE
    /\ services = [c \in KnownCaps |-> 0]
    /\ results = <<>>
    /\ allEvaluationResults = <<>>
    /\ i = 0
    /\ exitCode = -1
    /\ log = <<>>
    /\ MatrixIdle
    /\ MigratorIdle
    /\ CharacterIdle

SpecEval == InitEval /\ [][Next]_vars

(* ---------------------------- scenario matrix --------------------------- *)
\* the locals of the `scenario run` action
runVars == << scenario, live, provider, runtime, server, createdServer,
              mockEngine, finalStatus, reporter, e2bService, services,
              results, allEvaluationResults, i >>

IdleScenario ==
    [envType |-> "local", mocks |-> NoMocks, run |-> <<>>, strategy |-> "all_pass"]

\* the `scenario run` action has not been entered
RunIdle ==
    /\ scenario = IdleScenario
    /\ live = FALSE
    /\ provider = "null"
    /\ runtime = FALSE
    /\ server = FALSE
    /\ createdServer = FALSE
    /\ mockEngine = FALSE
    /\ finalStatus = FALSE
    /\ reporter = FALSE
    /\ e2bService = FALSE
    /\ services = [c \in KnownCaps |-> 0]
    /\ results = <<>>
    /\ allEvaluationResults = <<>>
    /\ i = 0

\* validateMatrixConfig: every axis lists at least one value and
\* runs_per_combination is at least 1; shapeOK stands for the other fields
\* (name, base_scenario) being present and well typed
validateMatrixConfig(raw, shapeOK) ==
    [ success |-> /\ shapeOK
                  /\ \A j \in 1..Len(raw.matrix) : Len(raw.matrix[j].values) >= 1
                  /\ raw.runs_per_combination >= 1,
      data |-> raw ]

\* the product of the lengths of the first n axes
RECURSIVE ProductOfLengths(_, _)
ProductOfLengths(matrix, n) ==
    IF n = 0
    THEN 1
    ELSE ProductOfLengths(matrix, n - 1) * Len(matrix[n].values)

\* a count that looks at the first axis only
calculateTotalCombinationsFirstAxis(config) ==
    IF Len(config.matrix) = 0 THEN 1 ELSE Len(config.matrix[1].values)

calculateTotalCombinations(config) ==
    ProductOfLengths(config.matrix, Len(config.matrix))

calculateTotalRuns(config) ==
    calculateTotalCombinations(config) * config.runs_per_combination

\* the combinations over the first n axes: every combination over the first
\* n - 1 axes, in order, extended by each value of the n-th axis in turn
RECURSIVE Expand(_, _)
Expand(matrix, n) ==
    IF n = 0
    THEN << <<>> >>
    ELSE LET shorter == Expand(matrix, n - 1)
             vals == matrix[n].values
             m == Len(vals)
         IN [ k \in 1..(Len(shorter) * m) |->
                Append(shorter[((k - 1) \div m) + 1],
                       [ parameter |-> matrix[n].parameter,
                         value |-> vals[((k - 1) % m) + 1] ]) ]

\* a generation that loses the last combination of a matrix with several
generateParameterCombinationsShort(config) ==
    LET all == Expand(config.matrix, Len(config.matrix))
    IN IF Len(all) > 1 THEN SubSeq(all, 1, Len(all) - 1) ELSE all

\* a generation in which the first-declared axis varies fastest
generateParameterCombinationsFirstFastest(config) ==
    LET n == Len(config.matrix)
        reversed == [j \in 1..n |-> config.matrix[n + 1 - j]]
        all == Expand(reversed, n)
    IN [ k \in 1..Len(all) |-> [j \in 1..n |-> all[k][n + 1 - j]] ]

\* generateParameterCombinations: a ParameterCombination is the sequence of
\* its parameter/value members in axis order (the key order of the object)
generateParameterCombinations(config) ==
    Expand(config.matrix, Len(config.matrix))

\* JSON.stringify of a literal: a string is quoted, a number is not
JsonLiteral(v) ==
    IF v.kind = "string" THEN <<"\"", v.text, "\"">> ELSE <<v.text>>

\* the first n members of the object, separated by commas
RECURSIVE JsonMembers(_, _)
JsonMembers(combo, n) ==
    IF n = 0
    THEN <<>>
    ELSE JsonMembers(combo, n - 1)
         \o (IF n > 1 THEN <<",">> ELSE <<>>)
         \o <<"\"">> \o combo[n].parameter \o <<"\"", ":">>
         \o JsonLiteral(combo[n].value)

\* line 377: JSON.stringify(combo), as a sequence of characters
JSONStringify(combo) == <<"{">> \o JsonMembers(combo, Len(combo)) \o <<"}">>

\* a filter that keeps a combination only when its text is the pattern
FilterCombinationsExact(combos, o) ==
    IF HasFilter(o) /\ FilterOf(o) # <<>>
    THEN SelectSeq(combos, LAMBDA combo : JSONStringify(combo) = FilterOf(o))
    ELSE combos

\* lines 372-381: an absent or empty --filter keeps every combination
FilterCombinations(combos, o) ==
    IF HasFilter(o) /\ FilterOf(o) # <<>>
    THEN SelectSeq(combos, LAMBDA combo : Contains(JSONStringify(combo), FilterOf(o)))
    ELSE combos

\* lines 272-293: a missing file and a YAML error end the process with code
\* 1; a read error is thrown to the catch handler
MatrixLoad ==
    /\ pc = "matrix:load"
    /\ \E fileExists \in BOOLEAN, readable \in BOOLEAN, parses \in BOOLEAN :
          IF ~fileExists
          THEN ProcessExit(1)
          ELSE IF ~readable
               THEN /\ pc' = "matrix:catch"
                    /\ UNCHANGED exitCode
               ELSE IF ~parses
                    THEN ProcessExit(1)
                    ELSE /\ pc' = "matrix:validate"
                         /\ UNCHANGED exitCode
    /\ UNCHANGED << log, runVars, matrixVars, migratorVars, characterVars >>

\* a validation whose failure is reported but does not end the process
MatrixValidateLenient ==
    /\ pc = "matrix:validate"
    /\ log' = Append(log, "validateMatrixConfig")
    /\ \E shapeOK \in BOOLEAN :
          LET validationResult == validateMatrixConfig(rawMatrixConfig, shapeOK)
          IN /\ matrixConfig' = validationResult.data
             /\ pc' = "matrix:analyze"
             /\ UNCHANGED exitCode
    /\ UNCHANGED << rawMatrixConfig, options, totalCombinations, totalRuns,
                    combinations, filteredCombinations, runVars, migratorVars, characterVars >>

\* lines 295-326: a configuration that fails the validation ends the process
\* with code 1
MatrixValidate ==
    /\ pc = "matrix:validate"
    /\ log' = Append(log, "validateMatrixConfig")
    /\ \E shapeOK \in BOOLEAN :
          LET validationResult == validateMatrixConfig(rawMatrixConfig, shapeOK)
          IN IF ~validationResult.success
             THEN /\ ProcessExit(1)
                  /\ UNCHANGED matrixConfig
             ELSE /\ matrixConfig' = validationResult.data
                  /\ pc' = "matrix:analyze"
                  /\ UNCHANGED exitCode
    /\ UNCHANGED << rawMatrixConfig, options, totalCombinations, totalRuns,
                    combinations, filteredCombinations, runVars, migratorVars, characterVars >>

\* lines 328-351
MatrixAnalyze ==
    /\ pc = "matrix:analyze"
    /\ totalCombinations' = calculateTotalCombinations(matrixConfig)
    /\ totalRuns' = calculateTotalRuns(matrixConfig)
    /\ log' = Append2(log, "calculateTotalCombinations", "calculateTotalRuns")
    /\ pc' = "matrix:base"
    /\ UNCHANGED << exitCode, rawMatrixConfig, options, matrixConfig,
                    combinations, filteredCombinations, runVars, migratorVars, characterVars >>

\* lines 353-359: the base scenario file must exist
MatrixBaseScenario ==
    /\ pc = "matrix:base"
    /\ \E baseExists \in BOOLEAN :
          IF ~baseExists
          THEN ProcessExit(1)
          ELSE /\ pc' = "matrix:generate"
               /\ UNCHANGED exitCode
    /\ UNCHANGED << log, runVars, matrixVars, migratorVars, characterVars >>

\* lines 361-369
MatrixGenerate ==
    /\ pc = "matrix:generate"
    /\ combinations' = generateParameterCombinations(matrixConfig)
    /\ log' = Append(log, "generateParameterCombinations")
    /\ pc' = "matrix:filter"
    /\ UNCHANGED << exitCode, rawMatrixConfig, options, matrixConfig,
                    totalCombinations, totalRuns, filteredCombinations,
                    runVars, migratorVars, characterVars >>

\* lines 371-381
MatrixFilter ==
    /\ pc = "matrix:filter"
    /\ filteredCombinations' = FilterCombinations(combinations, options)
    /\ log' = Append(log, "filter")
    /\ pc' = "matrix:plan"
    /\ UNCHANGED << exitCode, rawMatrixConfig, options, matrixConfig,
                    totalCombinations, totalRuns, combinations,
                    runVars, migratorVars, characterVars >>

\* lines 383-410: the dry run and the execution plan both end the process
\* with code 0; no combination is executed
MatrixPlan ==
    /\ pc = "matrix:plan"
    /\ log' = Append(log, IF options.dryRun THEN "dryRun" ELSE "plan")
    /\ ProcessExit(0)
    /\ UNCHANGED << runVars, matrixVars, migratorVars, characterVars >>

\* lines 412-420
MatrixCatch ==
    /\ pc = "matrix:catch"
    /\ log' = Append(log, "catch")
    /\ ProcessExit(1)
    /\ UNCHANGED << runVars, matrixVars, migratorVars, characterVars >>

NextMatrix ==
    \/ MatrixLoad
    \/ MatrixValidate
    \/ MatrixAnalyze
    \/ MatrixBaseScenario
    \/ MatrixGenerate
    \/ MatrixFilter
    \/ MatrixPlan
    \/ MatrixCatch

\* one execution of the `scenario matrix` action on a configuration file
InitMatrix ==
    /\ pc = "matrix:load"
    /\ exitCode = -1
    /\ log = <<>>
    /\ RunIdle
    /\ rawMatrixConfig \in MatrixConfigs
    /\ options \in MatrixOptions
    /\ matrixConfig = EmptyConfig
    /\ totalCombinations = 0
    /\ totalRuns = 0
    /\ combinations = <<>>
    /\ filteredCombinations = <<>>
    /\ MigratorIdle
    /\ CharacterIdle

SpecMatrix == InitMatrix /\ [][NextMatrix]_vars

(* ---------------------------- RuntimeMigrator --------------------------- *)
\* getStatus(plugin).hasRun: a migration row exists for the plugin
hasRun(rows, plugin) == Len(rows[plugin]) > 0

\* migrate throws on a schema that declares no table
MigrateThrows(schema) == schema \notin ValidSchemas

\* the schema of the latest row of the plugin is the one given
Unchanged(rows, plugin, schema) ==
    /\ Len(rows[plugin]) > 0
    /\ rows[plugin][Len(rows[plugin])] = schema

\* a migrate that writes a row on every successful call
migrateAlwaysRecords(rows, plugin, schema, dryRun) ==
    IF MigrateThrows(schema) \/ dryRun
    THEN rows
    ELSE [rows EXCEPT ![plugin] = Append(@, schema)]

\* a migrate whose dry run writes its row
migrateDryRunApplies(rows, plugin, schema, dryRun) ==
    IF MigrateThrows(schema) \/ Unchanged(rows, plugin, schema)
    THEN rows
    ELSE [rows EXCEPT ![plugin] = Append(@, schema)]

\* migrate(plugin, schema, {dryRun}): the rows it leaves. A call that throws
\* is rolled back, a schema equal to the latest one needs no migration, and
\* a dry run applies nothing
migrate(rows, plugin, schema, dryRun) ==
    IF MigrateThrows(schema) \/ Unchanged(rows, plugin, schema) \/ dryRun
    THEN rows
    ELSE [rows EXCEPT ![plugin] = Append(@, schema)]

\* reset(plugin) removes the rows of the plugin
reset(rows, plugin) == [rows EXCEPT ![plugin] = <<>>]

\* how a migrate call ends
OutcomeOf(schema, dryRun) ==
    IF MigrateThrows(schema) THEN "threw"
    ELSE IF dryRun THEN "dryRun" ELSE "done"

\* a caller invokes migrator.migrate
Migrate ==
    /\ pc = "migrator"
    /\ Len(history) < MaxCalls
    /\ \E plugin \in Plugins, schema \in Schemas, dryRun \in BOOLEAN :
          /\ prev' = migrations
          /\ migrations' = migrate(migrations, plugin, schema, dryRun)
          /\ history' = Append(history, [ op |-> "migrate", plugin |-> plugin,
                                          schema |-> schema,
                                          outcome |-> OutcomeOf(schema, dryRun) ])
    /\ UNCHANGED << pc, exitCode, log, runVars, matrixVars, characterVars >>

\* a caller invokes migrator.reset
Reset ==
    /\ pc = "migrator"
    /\ Len(history) < MaxCalls
    /\ \E plugin \in Plugins :
          /\ prev' = migrations
          /\ migrations' = reset(migrations, plugin)
          /\ history' = Append(history, [ op |-> "reset", plugin |-> plugin,
                                          schema |-> "none", outcome |-> "done" ])
    /\ UNCHANGED << pc, exitCode, log, runVars, matrixVars, characterVars >>

NextMigrator ==
    \/ Migrate
    \/ Reset

\* a migrator on an initialized database without migration rows
InitMigrator ==
    /\ pc = "migrator"
    /\ exitCode = -1
    /\ log = <<>>
    /\ RunIdle
    /\ MatrixIdle
    /\ MigratorIdle
    /\ CharacterIdle

SpecMigrator == InitMigrator /\ [][NextMigrator]_vars

(* --------------------------- getElizaCharacter -------------------------- *)
\* the plugin p when the condition holds, nothing otherwise
When(cond, p) == IF cond THEN <<p>> ELSE <<>>

\* all four Twitter credentials are set
TwitterReady(e) ==
    /\ e["TWITTER_API_KEY"]
    /\ e["TWITTER_API_SECRET_KEY"]
    /\ e["TWITTER_ACCESS_TOKEN"]
    /\ e["TWITTER_ACCESS_TOKEN_SECRET"]

\* a character that takes the Twitter plugin as soon as the API key is set
getElizaCharacterTwitterByKey(e) ==
    <<"@elizaos/plugin-sql">>
    \o When(e["ANTHROPIC_API_KEY"], "@elizaos/plugin-anthropic")
    \o When(e["OPENROUTER_API_KEY"], "@elizaos/plugin-openrouter")
    \o When(e["DISCORD_API_TOKEN"], "@elizaos/plugin-discord")
    \o When(e["TWITTER_API_KEY"], "@elizaos/plugin-twitter")
    \o When(e["TELEGRAM_BOT_TOKEN"], "@elizaos/plugin-telegram")
    \o When(~e["IGNORE_BOOTSTRAP"], "@elizaos/plugin-bootstrap")
    \o When(e["OPENAI_API_KEY"], "@elizaos/plugin-openai")
    \o <<"@elizaos/plugin-ollama">>
    \o When(e["GOOGLE_GENERATIVE_AI_API_KEY"], "@elizaos/plugin-google-genai")

\* a character that lists OpenAI with the other provider plugins
getElizaCharacterOpenAIEarly(e) ==
    <<"@elizaos/plugin-sql">>
    \o When(e["ANTHROPIC_API_KEY"], "@elizaos/plugin-anthropic")
    \o When(e["OPENAI_API_KEY"], "@elizaos/plugin-openai")
    \o When(e["OPENROUTER_API_KEY"], "@elizaos/plugin-openrouter")
    \o When(e["DISCORD_API_TOKEN"], "@elizaos/plugin-discord")
    \o When(TwitterReady(e), "@elizaos/plugin-twitter")
    \o When(e["TELEGRAM_BOT_TOKEN"], "@elizaos/plugin-telegram")
    \o When(~e["IGNORE_BOOTSTRAP"], "@elizaos/plugin-bootstrap")
    \o <<"@elizaos/plugin-ollama">>
    \o When(e["GOOGLE_GENERATIVE_AI_API_KEY"], "@elizaos/plugin-google-genai")

\* getElizaCharacter().plugins under the environment e: SQL, the text-only
\* providers, the platforms, bootstrap, and the embedding-capable providers
\* last, Ollama being always among them
getElizaCharacter(e) ==
    <<"@elizaos/plugin-sql">>
    \o When(e["ANTHROPIC_API_KEY"], "@elizaos/plugin-anthropic")
    \o When(e["OPENROUTER_API_KEY"], "@elizaos/plugin-openrouter")
    \o When(e["DISCORD_API_TOKEN"], "@elizaos/plugin-discord")
    \o When(TwitterReady(e), "@elizaos/plugin-twitter")
    \o When(e["TELEGRAM_BOT_TOKEN"], "@elizaos/plugin-telegram")
    \o When(~e["IGNORE_BOOTSTRAP"], "@elizaos/plugin-bootstrap")
    \o When(e["OPENAI_API_KEY"], "@elizaos/plugin-openai")
    \o <<"@elizaos/plugin-ollama">>
    \o When(e["GOOGLE_GENERATIVE_AI_API_KEY"], "@elizaos/plugin-google-genai")

\* a caller reads the character once more under the same environment
GetElizaCharacter ==
    /\ pc = "character"
    /\ Len(characters) < MaxCharacterCalls
    /\ characters' = Append(characters, getElizaCharacter(env))
    /\ UNCHANGED << pc, exitCode, log, env, runVars, matrixVars, migratorVars >>

NextCharacter == GetElizaCharacter

\* any setting of the variables the character looks at
InitCharacter ==
    /\ pc = "character"
    /\ exitCode = -1
    /\ log = <<>>
    /\ RunIdle
    /\ MatrixIdle
    /\ MigratorIdle
    /\ env \in [EnvVars -> BOOLEAN]
    /\ characters = <<>>

SpecCharacter == InitCharacter /\ [][NextCharacter]_vars

(* ------------------------------ properties ----------------------------- *)
InLog(ev) == \E k \in 1..Len(log) : log[k] = ev

\* the call ev threw: the catch handler ran right after it
Raised(ev) ==
    \E k \in 1..(Len(log) - 1) : log[k] = ev /\ log[k + 1] = "catch"

Exited == pc = "exited"

\* C1: every execution that aborts on an exception after the MockEngine was
\* created and a provider was selected has called revertMocks and teardown
\* by the time the process exits.
C1_AbortRunsCleanup ==
    (Exited /\ InLog("catch") /\ mockEngine /\ provider # "null")
        => (InLog("revertMocks") /\ InLog("teardown"))

\* C2: when the process exits, revertMocks was called exactly as many times
\* as applyMocks (once if Mocks were applied, never otherwise), also when
\* provider.run threw.
C2_RevertOncePerApply ==
    Exited => /\ Count("revertMocks") = Count("applyMocks")
              /\ Count("applyMocks") <= 1

\* C3: when Mocks were applied and a provider exists, teardown is called
\* only after revertMocks completed, and never while a Mock is installed.
C3_RevertBeforeTeardown ==
    (InLog("teardown") /\ InLog("applyMocks") /\ provider # "null")
        => /\ Count("revertMocks") = 1
           /\ FirstPos("revertMocks") < FirstPos("teardown")
           /\ ~MockInstalled

C3_Witness ==
    /\ Exited
    /\ InLog("teardown")
    /\ InLog("applyMocks")
    /\ Installed(revertMocks(services), MocksOf(scenario), Len(MocksOf(scenario)))
         # revertMocks(services)

\* C4: whenever a runtime handle was obtained, runtime.close() has been
\* called by the time the process exits.
C4_RuntimeClosed ==
    (Exited /\ runtime) => Count("close") = 1

\* C5: an execution that called reportStart calls reportFinalResult exactly
\* once before the process exits, and reports false after any exception.
C5_OneFinalReport ==
    (Exited /\ InLog("reportStart"))
        => /\ Count("reportFinalResult") = 1
           /\ InLog("catch") => ~finalStatus

C7_UnsupportedEnv ==
    scenario.envType \notin {"local", "e2b"}
        => /\ ~InLog("createRuntime")
           /\ ~InLog("applyMocks")
           /\ ~InLog("setup")
           /\ ~InLog("run")
           /\ ~runtime
           /\ provider = "null"
           /\ pc \in {"load", "plugins", "report", "select", "catch", "exited"}
           /\ Exited => (exitCode = 1 /\ ~finalStatus)

C7_Witness ==
    /\ scenario.envType = "unknown"
    /\ Exited
    /\ InLog("reportStart")
    /\ exitCode = 1

\* C8: when applyMocks threw, setup and run are never called, the verdict is
\* false, and no Mock is in effect when the process exits.
C8_FailedMocksLeaveNothing ==
    Raised("applyMocks")
        => /\ ~InLog("setup")
           /\ ~InLog("run")
           /\ ~finalStatus
           /\ Exited => ~MockInstalled

\* C9: when provider.setup threw, run is never called, nothing is evaluated,
\* the verdict is false, and teardown has been called when the process exits.
C9_SetupFailure ==
    Raised("setup")
        => /\ ~InLog("run")
           /\ ~InLog("evaluate")
           /\ ~finalStatus
           /\ Exited => InLog("teardown")

\* the place of a call in the lifecycle, 0 for a call that is not part of it
Phase(ev) ==
    CASE ev = "createRuntime" -> 1
      [] ev = "applyMocks" -> 2
      [] ev = "setup" -> 3
      [] ev = "run" -> 4
      [] ev = "evaluate" -> 5
      [] ev = "judge" -> 6
      [] ev = "teardown" -> 7
      [] OTHER -> 0

IsLifecycle(ev) == Phase(ev) # 0

\* C10: the lifecycle calls occur only in the order provider selection,
\* applyMocks, setup, run, evaluation of every Step, judgment, teardown; no
\* phase but the evaluation occurs twice, a phase begins only when the
\* previous ones are over, and nothing follows teardown.
C10_LifecycleOrder ==
    /\ LET calls == SelectSeq(log, IsLifecycle)
       IN \A k \in 1..(Len(calls) - 1) :
             \/ Phase(calls[k]) < Phase(calls[k + 1])
             \/ calls[k] = "evaluate" /\ calls[k + 1] = "evaluate"
    /\ InLog("setup") => (InLog("createRuntime") /\ provider # "null")
    /\ InLog("run") => InLog("setup")
    /\ InLog("evaluate") => InLog("run")
    /\ InLog("judge") => (InLog("run") /\ Count("evaluate") = Len(scenario.run))

C10_Witness ==
    /\ Exited
    /\ InLog("teardown")
    /\ InLog("applyMocks")
    /\ Len(scenario.run) >= 2
    /\ Count("evaluate") = Len(scenario.run)


Judged == InLog("judge")

AllSucceeded == \A k \in 1..Len(allEvaluationResults) : allEvaluationResults[k].success
SomeSucceeded == \E k \in 1..Len(allEvaluationResults) : allEvaluationResults[k].success

\* C11: under 'all_pass' the verdict is true exactly when every accumulated
\* EvaluationResult succeeded; with an empty run sequence it is true.
C11_AllPass ==
    (Judged /\ scenario.strategy = "all_pass")
        => /\ finalStatus <=> AllSucceeded
           /\ scenario.run = <<>> => finalStatus

C11_Witness ==
    /\ Judged
    /\ scenario.strategy = "all_pass"
    /\ Len(allEvaluationResults) >= 2
    /\ SomeSucceeded
    /\ ~finalStatus

\* C12: under 'any_pass' the verdict is true exactly when at least one
\* accumulated EvaluationResult succeeded; with an empty run sequence it is
\* false.
C12_AnyPass ==
    (Judged /\ scenario.strategy = "any_pass")
        => /\ finalStatus <=> SomeSucceeded
           /\ scenario.run = <<>> => ~finalStatus

C12_Witness ==
    /\ Judged
    /\ scenario.strategy = "any_pass"
    /\ Len(allEvaluationResults) >= 2
    /\ ~AllSucceeded
    /\ finalStatus

\* C13: with any strategy other than 'all_pass' and 'any_pass', or with no
\* judgment, the verdict is false whatever the EvaluationResults are.
C13_UnknownStrategyFails ==
    scenario.strategy \notin {"all_pass", "any_pass"}
        => /\ ~finalStatus
           /\ Exited => exitCode = 1

C13_Witness ==
    /\ Exited
    /\ Judged
    /\ scenario.strategy = "absent"
    /\ Len(allEvaluationResults) >= 1
    /\ AllSucceeded
    /\ exitCode = 1

\* the evaluator and the ExecutionResult an EvaluationResult came from
EvaluatorOf(r) == scenario.run[r.step].evaluations[r.ev]
ResultOf(r) == results[r.step]

\* the declared evaluations, as pairs << Step index, Evaluator index >>
IsDeclared(step, ev) ==
    /\ step \in 1..Len(scenario.run)
    /\ ev \in 1..Len(scenario.run[step].evaluations)

Declared ==
    { p \in (1..MaxSteps) \X (1..(MaxEvals + 1)) : IsDeclared(p[1], p[2]) }

\* C14: the accumulated EvaluationResults are the results of the declared
\* evaluations in Step-then-Evaluator order: strictly ascending in
\* (Step, Evaluator) at all times, and at the judgment one for every declared
\* evaluation and no other.
C14_ResultOrder ==
    /\ \A k \in 1..(Len(allEvaluationResults) - 1) :
          LET a == allEvaluationResults[k]
              b == allEvaluationResults[k + 1]
          IN \/ a.step < b.step
             \/ a.step = b.step /\ a.ev < b.ev
    /\ \A k \in 1..Len(allEvaluationResults) :
          IsDeclared(allEvaluationResults[k].step, allEvaluationResults[k].ev)
    /\ Judged =>
          LET declared == Declared
          IN /\ Len(allEvaluationResults) = Cardinality(declared)
             /\ \A p \in declared :
                   \E k \in 1..Len(allEvaluationResults) :
                      /\ allEvaluationResults[k].step = p[1]
                      /\ allEvaluationResults[k].ev = p[2]

C14_Witness ==
    /\ Judged
    /\ ~runtime
    /\ Len(scenario.run) >= 2
    /\ Len(allEvaluationResults) >= 4

\* C15: without a runtime, an evaluator of a kind other than string_contains
\* and regex_match gives a failed EvaluationResult and does not throw; the
\* evaluators after it are still evaluated.
C15_UnknownKindFails ==
    ~runtime =>
      /\ \A k \in 1..Len(allEvaluationResults) :
            EvaluatorOf(allEvaluationResults[k]).type
                  \notin {"string_contains", "regex_match"}
               => ~allEvaluationResults[k].success
      /\ Raised("evaluate") =>
            \E j \in 1..Len(scenario.run[i].evaluations) :
               scenario.run[i].evaluations[j].type = "regex_match"
      /\ Judged =>
            \A p \in Declared :
               \E k \in 1..Len(allEvaluationResults) :
                  /\ allEvaluationResults[k].step = p[1]
                  /\ allEvaluationResults[k].ev = p[2]

C15_Witness ==
    /\ ~runtime
    /\ Judged
    /\ \E k, m \in 1..Len(allEvaluationResults) :
          /\ k < m
          /\ EvaluatorOf(allEvaluationResults[k]).type = "llm_judge"
          /\ ~allEvaluationResults[k].success
          /\ allEvaluationResults[m].success

\* C16: a regex_match evaluator with an invalid pattern is recorded as a
\* failed EvaluationResult; the evaluation never throws, so that once
\* provider.run returned the judgment is always reached.
C16_InvalidPatternRecorded ==
    /\ ~Raised("evaluate")
    /\ (Exited /\ InLog("run") /\ ~Raised("run")) => Judged
    /\ \A k \in 1..Len(allEvaluationResults) :
          LET e == EvaluatorOf(allEvaluationResults[k])
          IN (e.type = "regex_match" /\ \E c \in 1..Len(e.value) : e.value[c] = "(")
                => ~allEvaluationResults[k].success

\* t occurs in s: s is some a characters, then t, then the rest
IsSubstring(s, t) ==
    \E a \in 0..Len(s) :
       /\ a + Len(t) <= Len(s)
       /\ \A c \in 1..Len(t) : s[a + c] = t[c]

\* C17: a string_contains evaluator succeeds exactly when the captured
\* stdout of its Step contains the configured value as a contiguous,
\* case-sensitive run of characters.
C17_StringContains ==
    \A k \in 1..Len(allEvaluationResults) :
       LET r == allEvaluationResults[k]
       IN EvaluatorOf(r).type = "string_contains"
             => (r.success <=> IsSubstring(ResultOf(r).stdout, EvaluatorOf(r).value))

C17_Witness ==
    /\ ~runtime
    /\ Judged
    /\ \E k, m \in 1..Len(allEvaluationResults) :
          /\ EvaluatorOf(allEvaluationResults[k]) =
                [type |-> "string_contains", value |-> <<"K">>]
          /\ allEvaluationResults[k].success
          /\ EvaluatorOf(allEvaluationResults[m]) =
                [type |-> "string_contains", value |-> <<"K">>]
          /\ ~allEvaluationResults[m].success

\* C18: the E2B provider is selected exactly when the type is 'e2b' and the
\* runtime offers the 'e2b' service; with type 'e2b' and a runtime without
\* the service, or with type 'local', the Local provider is selected, and
\* the selection aborts only when no runtime handle was obtained.
C18_ProviderSelection ==
    /\ provider = "E2B" <=> (scenario.envType = "e2b" /\ runtime /\ e2bService)
    /\ (scenario.envType = "e2b" /\ runtime /\ ~e2bService) => provider = "Local"
    /\ (scenario.envType = "local" /\ server) => provider = "Local"
    /\ Raised("createRuntime") => (~runtime /\ provider = "null")
    /\ provider # "null" => pc \notin {"load", "plugins", "report", "select"}

C18_Witness ==
    /\ scenario.envType = "e2b"
    /\ runtime
    /\ ~e2bService
    /\ provider = "Local"
    /\ Judged
    /\ Exited

\* the log entries that tell of the Local provider being used
FallbackNotices == {"info:Using local environment"}

\* C19: when a scenario of type 'e2b' runs on the Local provider because the
\* 'e2b' service is absent, a log entry telling so precedes provider.setup.
C19_FallbackLogged ==
    (scenario.envType = "e2b" /\ provider = "Local" /\ InLog("setup"))
        => \E k \in 1..FirstPos("setup") : log[k] \in FallbackNotices

Original == [c \in KnownCaps |-> 0]

\* C20: once revertMocks was called every capability behaves as before
\* applyMocks, and no capability is still overridden when the process exits.
C20_MocksReverted ==
    /\ InLog("revertMocks") => services = Original
    /\ (Exited /\ InLog("applyMocks")) => services = Original

\* the run block has returned its results to the action
RunReturned == i >= 1

\* C21: when provider.run returns, the result sequence holds exactly one
\* ExecutionResult for each Step of scenario.run, at the Step's index, marked
\* succeeded or failed; a failed result does not cut the sequence short
C21_OneResultPerStep ==
    RunReturned =>
        /\ Len(results) = Len(scenario.run)
        /\ \A k \in 1..Len(scenario.run) : results[k] \in ExecResults
        /\ \A k \in 1..Len(results) :
              ~results[k].success => \A j \in k..Len(scenario.run) : j \in DOMAIN results

\* a first Step that failed, followed by a Step that has its own result, and
\* the evaluation loop has gone through both
C21_Witness ==
    /\ RunReturned
    /\ Len(scenario.run) >= 2
    /\ ~results[1].success
    /\ results[2].success
    /\ Judged

(* ------------------------- matrix properties --------------------------- *)
\* the value-index vectors of a matrix: one index into each axis
Points(matrix) ==
    { f \in [1..Len(matrix) -> 1..MaxValues] :
        \A j \in 1..Len(matrix) : f[j] <= Len(matrix[j].values) }

\* the combination that picks, on each axis, the value at the given index
PointOf(matrix, f) ==
    [ j \in 1..Len(matrix) |->
        [parameter |-> matrix[j].parameter, value |-> matrix[j].values[f[j]]] ]

Analyzed == InLog("calculateTotalRuns")
Generated == InLog("generateParameterCombinations")
Filtered == InLog("filter")

\* C22: once the totals are computed, totalCombinations is the number of
\* points of the product of the axes' value sequences (1 without axes) and
\* totalRuns is totalCombinations times runs_per_combination
C22_Totals ==
    Analyzed =>
        /\ totalCombinations = Cardinality(Points(matrixConfig.matrix))
        /\ Len(matrixConfig.matrix) = 0 => totalCombinations = 1
        /\ totalRuns = totalCombinations * matrixConfig.runs_per_combination

\* axes of 3 and 4 values with runs_per_combination = 2 give 12 and 24
C22_Witness ==
    /\ Analyzed
    /\ Len(matrixConfig.matrix) = 2
    /\ Len(matrixConfig.matrix[1].values) = 3
    /\ Len(matrixConfig.matrix[2].values) = 4
    /\ matrixConfig.runs_per_combination = 2
    /\ totalCombinations = 12
    /\ totalRuns = 24

\* C23: the generated combinations are exactly the points of the Cartesian
\* product: each one picks one value of every axis, every point occurs at
\* exactly one position, and there are totalCombinations of them
C23_CartesianProduct ==
    Generated =>
        LET matrix == matrixConfig.matrix
        IN /\ \A k \in 1..Len(combinations) :
                 /\ Len(combinations[k]) = Len(matrix)
                 /\ \A j \in 1..Len(matrix) :
                       /\ combinations[k][j].parameter = matrix[j].parameter
                       /\ \E v \in 1..Len(matrix[j].values) :
                             combinations[k][j].value = matrix[j].values[v]
           /\ \A f \in Points(matrix) :
                 Cardinality({ k \in 1..Len(combinations) :
                                 combinations[k] = PointOf(matrix, f) }) = 1
           /\ Len(combinations) = totalCombinations

C23_Witness ==
    /\ Generated
    /\ Len(matrixConfig.matrix) = 2
    /\ Len(matrixConfig.matrix[1].values) = 2
    /\ Len(matrixConfig.matrix[2].values) = 3
    /\ Len(combinations) = 6

\* the product of the lengths of the axes declared after the j-th
RECURSIVE Weight(_, _)
Weight(matrix, j) ==
    IF j >= Len(matrix)
    THEN 1
    ELSE Len(matrix[j + 1].values) * Weight(matrix, j + 1)

\* the j-th digit of k in the mixed radix of the axes' lengths
DigitOf(matrix, k, j) == (k \div Weight(matrix, j)) % Len(matrix[j].values)

\* C24: the k-th combination (counting from 0) picks on each axis the value
\* whose index is the axis's digit of k in the mixed radix of the axes'
\* lengths, so that the last-declared axis varies fastest: the next
\* combination has the next value of the last axis, or its first value
\* after the last one
C24_OdometerOrder ==
    Generated =>
        LET matrix == matrixConfig.matrix
            n == Len(matrix)
        IN /\ \A k \in 1..Len(combinations) : \A j \in 1..n :
                 combinations[k][j].value
                    = matrix[j].values[DigitOf(matrix, k - 1, j) + 1]
           /\ \A k \in 1..(Len(combinations) - 1) :
                 LET last == matrix[n].values
                     m == Len(last)
                 IN \E v \in 1..m :
                       /\ combinations[k][n].value = last[v]
                       /\ combinations[k + 1][n].value = last[(v % m) + 1]

\* two axes of several values each: the second combination differs from the
\* first in the last axis only, and the last axis has wrapped around once
C24_Witness ==
    /\ Generated
    /\ Len(matrixConfig.matrix) = 2
    /\ Len(matrixConfig.matrix[1].values) = 2
    /\ Len(matrixConfig.matrix[2].values) = 2
    /\ combinations[1][1] = combinations[2][1]
    /\ combinations[1][2] # combinations[2][2]
    /\ combinations[3][1] # combinations[2][1]
    /\ combinations[3][2] = combinations[1][2]

\* the position of a combination in the generated list
PositionOf(combo) == CHOOSE k \in 1..Len(combinations) : combinations[k] = combo

\* C26: with a --filter pattern the filtered list keeps exactly the
\* combinations whose JSON text contains the pattern, in their generated
\* order and unaltered; without one it is the generated list
C26_Filter ==
    Filtered =>
        /\ \A k \in 1..Len(filteredCombinations) :
              \E m \in 1..Len(combinations) :
                 filteredCombinations[k] = combinations[m]
        /\ \A a \in 1..(Len(filteredCombinations) - 1) :
              PositionOf(filteredCombinations[a])
                 < PositionOf(filteredCombinations[a + 1])
        /\ HasFilter(options) =>
              \A m \in 1..Len(combinations) :
                 (\E k \in 1..Len(filteredCombinations) :
                     filteredCombinations[k] = combinations[m])
                 <=> IsSubstring(JSONStringify(combinations[m]), FilterOf(options))
        /\ ~HasFilter(options) => filteredCombinations = combinations

\* a pattern that keeps several combinations and drops others, among them
\* one between two that are kept
C26_Witness ==
    /\ Filtered
    /\ HasFilter(options)
    /\ Len(filteredCombinations) >= 2
    /\ Len(filteredCombinations) < Len(combinations)
    /\ PositionOf(filteredCombinations[2]) > PositionOf(filteredCombinations[1]) + 1
    /\ exitCode = 0

\* some axis lists no value, or runs_per_combination is below 1
Violating(config) ==
    \/ \E j \in 1..Len(config.matrix) : Len(config.matrix[j].values) = 0
    \/ config.runs_per_combination < 1

\* C27: once such a configuration has gone through the validation, the
\* process has ended with code 1, and neither the totals nor any combination
\* have been computed
C27_InvalidRejected ==
    (InLog("validateMatrixConfig") /\ Violating(rawMatrixConfig)) =>
        /\ Exited
        /\ exitCode = 1
        /\ ~InLog("calculateTotalCombinations")
        /\ ~InLog("calculateTotalRuns")
        /\ ~Generated
        /\ combinations = <<>>

\* an axis without values next to one with values, rejected
C27_Witness ==
    /\ InLog("validateMatrixConfig")
    /\ \E j \in 1..Len(rawMatrixConfig.matrix) :
          Len(rawMatrixConfig.matrix[j].values) = 0
    /\ \E j \in 1..Len(rawMatrixConfig.matrix) :
          Len(rawMatrixConfig.matrix[j].values) > 0
    /\ rawMatrixConfig.runs_per_combination >= 1
    /\ Exited
    /\ exitCode = 1

(* ------------------------ migrator properties -------------------------- *)
\* the calls on the plugin that returned and were to change its rows
Effective(plugin) ==
    SelectSeq(history, LAMBDA h : h.plugin = plugin /\ h.outcome = "done")

\* the successful migrate calls on the plugin
Successes(plugin) ==
    SelectSeq(history, LAMBDA h : h.plugin = plugin /\ h.op = "migrate"
                                     /\ h.outcome = "done")

\* C29: after one or more successful migrate calls on a plugin, all with the
\* same schema and no reset of the plugin, the plugin has exactly one
\* migration row and getStatus(plugin).hasRun is true
C29_MigrateIdempotent ==
    \A plugin \in Plugins :
        LET done == Successes(plugin)
        IN ( /\ Len(done) >= 1
             /\ \A k \in 1..Len(done) : done[k].schema = done[1].schema
             /\ Effective(plugin) = done )
           => /\ Len(migrations[plugin]) = 1
              /\ hasRun(migrations, plugin)

\* the same schema migrated three times for one plugin
C29_Witness ==
    \E plugin \in Plugins :
        /\ Len(Successes(plugin)) >= 3
        /\ \A k \in 1..Len(Successes(plugin)) :
              Successes(plugin)[k].schema = Successes(plugin)[1].schema
        /\ Effective(plugin) = Successes(plugin)
        /\ Len(migrations[plugin]) = 1

\* the latest call
LastCall == history[Len(history)]

\* C30: a migrate call that throws and a dry-run migrate call leave every
\* migration row as it was; a plugin whose latest effective call is a reset,
\* or that has had no successful migrate, has no migration row and
\* getStatus(plugin).hasRun is false
C30_NoTrace ==
    /\ ( /\ Len(history) > 0
         /\ LastCall.op = "migrate"
         /\ LastCall.outcome \in {"threw", "dryRun"} ) => migrations = prev
    /\ \A plugin \in Plugins :
          LET eff == Effective(plugin)
          IN (Len(eff) = 0 \/ eff[Len(eff)].op = "reset")
             => /\ migrations[plugin] = <<>>
                /\ ~hasRun(migrations, plugin)

\* a plugin that was migrated, reset, and then given a failing and a dry-run
\* migrate
C30_Witness ==
    \E plugin \in Plugins :
        /\ Len(history) = 4
        /\ \A k \in 1..4 : history[k].plugin = plugin
        /\ history[1].op = "migrate" /\ history[1].outcome = "done"
        /\ history[2].op = "reset"
        /\ history[3].outcome = "threw"
        /\ history[4].outcome = "dryRun"
        /\ ~hasRun(migrations, plugin)

(* ------------------------ character properties ------------------------- *)
\* the plugin occurs in the list
Has(plugins, p) == \E k \in 1..Len(plugins) : plugins[k] = p

\* its position in the list, 0 when it does not occur
IndexOf(plugins, p) ==
    IF Has(plugins, p)
    THEN CHOOSE k \in 1..Len(plugins) : plugins[k] = p
    ELSE 0

EmbeddingPlugins ==
    {"@elizaos/plugin-openai", "@elizaos/plugin-ollama", "@elizaos/plugin-google-genai"}
TextOnlyPlugins == {"@elizaos/plugin-anthropic", "@elizaos/plugin-openrouter"}
PlatformPlugins ==
    {"@elizaos/plugin-discord", "@elizaos/plugin-telegram", "@elizaos/plugin-twitter"}

\* C31: every returned plugin list starts with the SQL plugin, holds the
\* Ollama plugin, holds the bootstrap plugin exactly when IGNORE_BOOTSTRAP is
\* not set, and holds the Twitter plugin only when the four Twitter
\* credentials are set
C31_CorePlugins ==
    \A c \in 1..Len(characters) :
        LET plugins == characters[c]
        IN /\ plugins[1] = "@elizaos/plugin-sql"
           /\ Has(plugins, "@elizaos/plugin-ollama")
           /\ Has(plugins, "@elizaos/plugin-bootstrap") <=> ~env["IGNORE_BOOTSTRAP"]
           /\ Has(plugins, "@elizaos/plugin-twitter") =>
                 /\ env["TWITTER_API_KEY"]
                 /\ env["TWITTER_API_SECRET_KEY"]
                 /\ env["TWITTER_ACCESS_TOKEN"]
                 /\ env["TWITTER_ACCESS_TOKEN_SECRET"]

\* the Twitter API key alone, with IGNORE_BOOTSTRAP set: neither the Twitter
\* nor the bootstrap plugin is listed
C31_Witness ==
    /\ Len(characters) >= 1
    /\ env["TWITTER_API_KEY"]
    /\ ~env["TWITTER_ACCESS_TOKEN"]
    /\ env["IGNORE_BOOTSTRAP"]
    /\ ~Has(characters[1], "@elizaos/plugin-twitter")
    /\ ~Has(characters[1], "@elizaos/plugin-bootstrap")
    /\ Has(characters[1], "@elizaos/plugin-ollama")

StepsEvaluated ==
    LET evaluated == Count("evaluate")
    IN Cardinality({ k \in 1..Len(scenario.run) :
                       k <= evaluated /\ Len(scenario.run[k].evaluations) > 0 })

\* C33: with a runtime handle every Step that declares evaluations is handed
\* to the EvaluationEngine and none is evaluated inline; without one every
\* such Step is evaluated inline; one execution never uses both
C33_ModeByRuntime ==
    /\ ~(InLog("runEvaluations") /\ InLog("inlineEvaluation"))
    /\ InLog("runEvaluations") => runtime
    /\ InLog("inlineEvaluation") => ~runtime
    /\ runtime => Count("runEvaluations") = StepsEvaluated
    /\ ~runtime => Count("inlineEvaluation") = StepsEvaluated

\* a runtime-backed execution whose Steps declare only string_contains
\* evaluators, all handed to the engine
C33_Witness ==
    /\ runtime
    /\ Judged
    /\ Len(scenario.run) >= 2
    /\ \A k \in 1..Len(scenario.run) :
          /\ Len(scenario.run[k].evaluations) > 0
          /\ \A e \in 1..Len(scenario.run[k].evaluations) :
                scenario.run[k].evaluations[e].type = "string_contains"
    /\ Count("runEvaluations") = Len(scenario.run)

(* ------------------------ index alignment ------------------------------ *)
\* C34: every EvaluationResult belongs to a Step that has an ExecutionResult
\* and to one of that Step's Evaluators, the results follow the Steps'
\* order, and each is what that Evaluator gives on the ExecutionResult at the
\* Step's own index
C34_IndexAlignment ==
    /\ LET evaluated == Count("evaluate")
       IN \A k \in 1..Len(allEvaluationResults) :
             allEvaluationResults[k].step <= evaluated
    /\ \A k \in 1..Len(allEvaluationResults) :
          LET r == allEvaluationResults[k]
          IN /\ r.step \in 1..Len(results)
             /\ r.ev \in 1..Len(scenario.run[r.step].evaluations)
             /\ runtime =>
                   r.success \in EngineOutcomes(scenario.run[r.step].evaluations[r.ev],
                                                results[r.step])
             /\ ~runtime =>
                   r.success = InlineSuccess(scenario.run[r.step].evaluations[r.ev],
                                             results[r.step])
    /\ \A k \in 1..(Len(allEvaluationResults) - 1) :
          allEvaluationResults[k].step <= allEvaluationResults[k + 1].step

\* two Steps with the same string_contains evaluator whose outputs differ:
\* the first result fails on the first output and the second succeeds on the
\* second
C34_Witness ==
    /\ Judged
    /\ Len(scenario.run) >= 2
    /\ Len(allEvaluationResults) >= 2
    /\ ~results[1].success
    /\ results[2].success
    /\ allEvaluationResults[1].step = 1
    /\ ~allEvaluationResults[1].success
    /\ \E k \in 1..Len(allEvaluationResults) :
          /\ allEvaluationResults[k].step = 2
          /\ allEvaluationResults[k].success
          /\ scenario.run[2].evaluations[allEvaluationResults[k].ev].type
                = "string_contains"

(* ------------------------------ live mode ------------------------------ *)
\* a runtime handle exists, the scenario defines setup.mocks, --live is off
MockingCase == runtime /\ HasMocks(scenario) /\ ~live

\* C35: a MockEngine exists and applyMocks has been called only in an
\* execution with a runtime handle, defined mocks and --live off; in every
\* other execution applyMocks and revertMocks are never called and every
\* capability of the runtime is the original one
C35_MocksOnlyWhenNotLive ==
    /\ (mockEngine \/ InLog("applyMocks")) => MockingCase
    /\ ~MockingCase =>
          /\ ~mockEngine
          /\ ~InLog("applyMocks")
          /\ ~InLog("revertMocks")
          /\ ~MockInstalled

\* a live execution of a scenario that defines a Mock, with a runtime
\* handle, run to its end without any call of the MockEngine
C35_Witness ==
    /\ live
    /\ runtime
    /\ HasMocks(scenario)
    /\ Len(MocksOf(scenario)) >= 1
    /\ InLog("teardown")
    /\ Exited
    /\ ~InLog("applyMocks")
    /\ ~InLog("revertMocks")

(* ----------------------------- final status ---------------------------- *)
\* C36: finalStatus is false until the judgment; when it is true, setup and
\* run have returned, every Step has been evaluated without a throw, and the
\* strategy is 'all_pass' with every result successful or 'any_pass' with
\* some result successful; the exit code is 0 only for such an execution,
\* and never for one that went through the catch handler
C36_StatusOnlyFromJudgment ==
    /\ ~Judged => ~finalStatus
    /\ finalStatus =>
          /\ InLog("setup") /\ ~Raised("setup")
          /\ InLog("run") /\ ~Raised("run")
          /\ Count("evaluate") = Len(scenario.run)
          /\ ~Raised("evaluate")
          /\ \/ scenario.strategy = "all_pass" /\ AllSucceeded
             \/ scenario.strategy = "any_pass" /\ SomeSucceeded
    /\ exitCode = 0 => (finalStatus /\ ~InLog("catch"))
    /\ InLog("catch") => (~finalStatus /\ (Exited => exitCode = 1))

\* an execution that ended with code 0 under 'any_pass' with a failed and a
\* successful result
C36_Witness ==
    /\ Exited
    /\ exitCode = 0
    /\ finalStatus
    /\ scenario.strategy = "any_pass"
    /\ SomeSucceeded
    /\ ~AllSucceeded

C38_CleanupErrorsSwallowed ==
    /\ (InLog("e2bStop") \/ InLog("close") \/ InLog("serverStop")) =>
          /\ Judged
          /\ finalStatus = Judgment(scenario.strategy, allEvaluationResults)
          /\ pc \in {"stop", "final", "exited"}
          /\ ~InLog("catch")
          /\ Exited => /\ Count("reportFinalResult") = 1
                       /\ exitCode = ExitCodeOf(finalStatus)
    /\ InLog("serverStop") => (server /\ createdServer)

\* a passing execution in which both the runtime shutdown and server.stop()
\* threw, ended with the final report and code 0
C38_Witness ==
    /\ Exited
    /\ Count("swallowed") = 2
    /\ InLog("serverStop")
    /\ finalStatus
    /\ exitCode = 0
    /\ Count("reportFinalResult") = 1

(* --------------------- verdict and execution results ------------------- *)
\* the scenario's Steps declare no evaluations
NoEvaluations == scenario.run \in SimpleRuns

\* every Step has an ExecutionResult and each is marked failed
AllExecutionsFailed ==
    /\ Len(results) = Len(scenario.run)
    /\ Len(results) > 0
    /\ \A k \in 1..Len(results) : ~results[k].success

\* the evaluations declared by the Steps gone through so far
EvaluationsDeclared ==
    LET evaluated == Count("evaluate")
    IN UNION { { << k, j >> : j \in 1..Len(scenario.run[k].evaluations) } :
                 k \in { n \in 1..Len(scenario.run) : n <= evaluated } }

\* C39: the verdict is a function of the EvaluationResults alone: a Step
\* without evaluations adds no EvaluationResult, and a judged scenario whose
\* Steps declare none has verdict true under 'all_pass' and false under
\* 'any_pass', whatever the success flags of its ExecutionResults
C39_VerdictFromEvaluationsOnly ==
    /\ NoEvaluations => allEvaluationResults = <<>>
    /\ Len(allEvaluationResults) <= Cardinality(EvaluationsDeclared)
    /\ Judged =>
          /\ (scenario.strategy = "all_pass") => (finalStatus <=> AllSucceeded)
          /\ (scenario.strategy = "any_pass") => (finalStatus <=> SomeSucceeded)
          /\ NoEvaluations =>
                /\ (scenario.strategy = "all_pass") => finalStatus
                /\ (scenario.strategy = "any_pass") => ~finalStatus
                /\ Exited => exitCode = ExitCodeOf(scenario.strategy = "all_pass")

\* every Step failed to execute, none declares an evaluation, and the
\* execution ended with verdict true and code 0 under 'all_pass'
C39_Witness ==
    /\ Exited
    /\ Judged
    /\ NoEvaluations
    /\ AllExecutionsFailed
    /\ Len(scenario.run) = MaxSteps
    /\ scenario.strategy = "all_pass"
    /\ finalStatus
    /\ exitCode = 0

====
